---- MODULE Spec2Model ----
(***************************************************************************)
(* The Infino sink of Vector: InfinoSink::run_inner and the two event      *)
(* conversions (src/sinks/infino/sink.rs), the defaults of InfinoConfig    *)
(* (src/sinks/infino/config.rs), and the batching / dispatch / outcome     *)
(* pipeline the sink is declared over (BatcherSettings, Service<           *)
(* InfinoRequest>, InfinoRetryLogic), whose code lives outside these two   *)
(* files.                                                                  *)
(***************************************************************************)
EXTENDS Integers, Sequences, FiniteSets, TLC

\* ------------------------------------------------------------------ bounds
MaxEvents == 3      \* events pulled from the input stream in one run
MaxSamples == 2     \* samples carried by one Histogram / Distribution
MaxDocs == 3        \* documents pushed through the dispatch pipeline in one run
MaxPushes == 5      \* documents pushed to the batcher alone in one run

SampleVals == {1, 20, 22}
RawVals == {0, 42}
SetVals == {"a", "b"}
Timestamps == {0, 60}

VARIABLES
    pc,            \* run / run_inner: "start", "running", "done"
    pulled,        \* the events pulled so far, each with the store's answer
    store,         \* what the destination store holds, in append order
    stepResult,    \* what the closure returned for the last event
    errorLog,      \* number of error!() diagnostics emitted
    runResult,     \* the value run_inner returned: "none" until it returns
    streamEnded,   \* the input stream returned None
    metric,        \* the Metric handed to convert_metric_to_ingest_metric
    ingest_metric, \* its result, NoIngest before the call
    phase,         \* pipeline: "running", "draining", "done"
    retry_partial, \* the request_retry_partial flag the sink was built with
    pushed,        \* number of documents pushed to the batcher
    open,          \* batcher: PartitionKey -> the open batch (documents in push order)
    requests,      \* dispatch service: the requests in flight
    disp,          \* outcome collector: document -> its terminal dispositions
    drained        \* what drain found: the open batches and in-flight requests

sinkVars == <<pc, pulled, store, stepResult, errorLog, runResult, streamEnded>>
convVars == <<metric, ingest_metric>>
pipeVars == <<phase, retry_partial, pushed, open, requests, disp, drained>>

\* ------------------------------------------------------------ event model
RECURSIVE SeqsUpTo(_, _)
SeqsUpTo(S, n) ==
    IF n = 0 THEN {<<>>}
    ELSE LET shorter == SeqsUpTo(S, n - 1)
         IN  shorter \cup {Append(s, x) : s \in {t \in shorter : Len(t) = n - 1}, x \in S}

NoTags == <<>>
HostTag == << <<"host", "h1">> >>

MkMetric(kind, ts, value, samples, values) ==
    [type |-> "Metric", name |-> "m", timestamp |-> ts, kind |-> kind,
     value |-> value, samples |-> samples, values |-> values, tags |-> HostTag]

\* Every Metric the conversion is applied to.
Metrics ==
    {MkMetric(k, ts, v, <<>>, {}) : k \in {"Counter", "Gauge"}, ts \in Timestamps, v \in RawVals}
    \cup {MkMetric(k, ts, 0, s, {}) :
            k \in {"Histogram", "Distribution"}, ts \in Timestamps,
            s \in SeqsUpTo(SampleVals, MaxSamples)}
    \cup {MkMetric("Set", ts, 0, <<>>, vs) : ts \in Timestamps, vs \in SUBSET SetVals}

\* The Metrics the input stream of the sink carries.
StreamMetrics ==
    {MkMetric("Counter", 60, 42, <<>>, {}),
     MkMetric("Histogram", 60, 0, <<20, 22>>, {}),
     MkMetric("Set", 60, 0, <<>>, {"a", "b"})}

StrVal(s) == [is_str |-> TRUE, s |-> s, n |-> 0]
NumVal(n) == [is_str |-> FALSE, s |-> "", n |-> n]

LogEvents ==
    {[type |-> "Log", timestamp |-> 60,
      fields |-> << <<"message", StrVal("hello")>>, <<"code", NumVal(7)>> >>]}

TraceEvents == {[type |-> "Trace"]}

\* Results of CoreDB::append_metric_point / append_event.
CoreDBErrors == {"TooManyAppendsError", "UnsupportedIngest", "IndexNotFound", "IOError"}
CoreDBResults == {"Ok"} \cup CoreDBErrors

\* ------------------------------------------------------------ conversions
RECURSIVE sum(_)
sum(samples) ==
    IF samples = <<>> THEN 0 ELSE Head(samples) + sum(Tail(samples))

metric_value_count(m) ==
    CASE m.kind = "Counter" -> m.value
      [] m.kind = "Gauge" -> m.value
      [] m.kind = "Histogram" -> Len(m.samples)
      [] m.kind = "Set" -> Cardinality(m.values)
      [] m.kind = "Distribution" -> Len(m.samples)

metric_value(m) ==
    CASE m.kind = "Counter" -> m.value
      [] m.kind = "Gauge" -> m.value
      [] m.kind = "Histogram" -> sum(m.samples)
      [] m.kind = "Set" -> Cardinality(m.values)
      [] m.kind = "Distribution" -> sum(m.samples)

convert_metric_to_ingest_metric(m) ==
    [metric_name |-> m.name,
     metric_point |-> [time |-> m.timestamp, value |-> metric_value(m)],
     labels |-> m.tags]

as_str_or_empty(v) == IF v.is_str THEN v.s ELSE ""

convert_log_to_ingest_log(log) ==
    [index_name |-> "logs",
     operation |-> "Index",
     time |-> log.timestamp,
     message |-> [i \in 1..Len(log.fields) |->
                    <<log.fields[i][1], as_str_or_empty(log.fields[i][2])>>]]

\* ---------------------------------------------------------------- run_inner
Unit == [tag |-> "Unit", status |-> 0]
None == [tag |-> "None", status |-> 0]
Err(status) == [tag |-> "Err", status |-> status]

TOO_MANY_REQUESTS == 429
BAD_REQUEST == 400

\* What one arm of the closure yields: its return value and the number of
\* error!() diagnostics it emits.
MetricArm(result) ==
    CASE result = "Ok" -> [ret |-> Unit, errors |-> 0]
      [] result = "TooManyAppendsError" -> [ret |-> Err(TOO_MANY_REQUESTS), errors |-> 0]
      [] result \in {"UnsupportedIngest", "IndexNotFound"} ->
            [ret |-> Err(BAD_REQUEST), errors |-> 0]
      [] OTHER -> [ret |-> Unit, errors |-> 1]

LogArm_checked(result) == MetricArm(result)

LogArm(result) == [ret |-> Unit, errors |-> 0]

TraceArm_indexed(st, id) ==
    [ret |-> Unit,
     store |-> Append(st, [id |-> id, key |-> [index |-> "traces", bulk_action |-> "Index"],
                           doc |-> None])]

TraceArm(st, id) == [ret |-> None, store |-> st]

\* The store after an append: a failed append writes nothing.
coredb_append_front(st, result, entry) ==
    IF result = "Ok" THEN <<entry>> \o st ELSE st

coredb_append(st, result, entry) ==
    IF result = "Ok" THEN Append(st, entry) ELSE st

\* .for_each(|_| future::ready(())): the closure's value is ignored and the
\* stream is driven on.
for_each_try(ret) ==
    IF ret.tag = "Err" THEN [pc |-> "done", runResult |-> "Err"]
    ELSE [pc |-> "running", runResult |-> "none"]

for_each(ret) == [pc |-> "running", runResult |-> "none"]

PartitionKey(index, bulk_action) == [index |-> index, bulk_action |-> bulk_action]

NoMetric == [type |-> "NoMetric"]
NoIngest == [metric_name |-> "", metric_point |-> [time |-> 0, value |-> 0], labels |-> NoTags]

\* ------------------------------------------ batcher, dispatch, outcomes
\* InfinoConfig::default: request_retry_partial.
request_retry_partial_default == FALSE

PipeKeys == {PartitionKey("logs", "Index"), PartitionKey("default", "Index")}
DocSizes == {1, 2}
UnitSize == {1}

\* Batch thresholds (BatcherSettings) and the retry ceiling of the service.
batch_max_events == 3
batch_max_bytes == 4
retry_ceiling == 2

Http(code) == [kind |-> "http", code |-> code, err |-> ""]
Network(err) == [kind |-> "network", code |-> 0, err |-> err]

\* The responses the transport gives to an attempt in the runs explored.
Outcomes ==
    {Http(c) : c \in {200, 400, 429, 503}} \cup {Network("timeout")}

\* Every response the classifier is defined on.
AllOutcomes ==
    {Http(c) : c \in (200..204) \cup (400..431) \cup (500..511)}
    \cup {Network(e) : e \in {"timeout", "connection reset"}}

\* Document ids: MaxPushes is the largest number of documents of any run.
DocIds == 1..MaxPushes

Ids(docs) == {docs[i].id : i \in 1..Len(docs)}

RECURSIVE Bytes(_)
Bytes(batch) == IF batch = <<>> THEN 0 ELSE Head(batch).size + Bytes(Tail(batch))

WouldExceed(batch, doc) ==
    \/ Len(batch) + 1 > batch_max_events
    \/ Bytes(batch) + doc.size > batch_max_bytes

\* Batcher::push: the batch to flush (empty: none) and the batch left open.
push_then_flush(batch, doc) ==
    IF WouldExceed(batch, doc)
    THEN [flushed |-> Append(batch, doc), open |-> <<>>]
    ELSE [flushed |-> <<>>, open |-> Append(batch, doc)]

push(batch, doc) ==
    IF WouldExceed(batch, doc)
    THEN [flushed |-> batch, open |-> <<doc>>]
    ELSE [flushed |-> <<>>, open |-> Append(batch, doc)]

\* The error classifier of the dispatch service.
Classify_429_fatal(o) ==
    IF o.kind = "network" THEN "Retryable"
    ELSE IF o.code \in 500..599 THEN "Retryable"
    ELSE IF o.code \in 400..499 THEN "NonRetryable"
    ELSE "Success"

Classify(o) ==
    IF o.kind = "network" THEN "Retryable"
    ELSE IF o.code = 429 \/ o.code \in 500..599 THEN "Retryable"
    ELSE IF o.code \in 400..499 THEN "NonRetryable"
    ELSE "Success"

RetryDecision(o, attempts) ==
    IF Classify(o) = "Retryable" /\ attempts >= retry_ceiling THEN "Exhausted"
    ELSE Classify(o)

\* A request in flight: its batch and the number of attempts that failed.
NewRequest(docs) == [docs |-> docs, attempts |-> 0]

Retried(r, docs) == [docs |-> docs, attempts |-> r.attempts + 1]

\* Dispatching a batch: an empty batch is never emitted.
Dispatch(reqs, batch) == IF batch = <<>> THEN reqs ELSE reqs \cup {NewRequest(batch)}

\* Terminal dispositions; Delivered records the failed attempts before it.
Delivered(retries) == [what |-> "Delivered", reason |-> "", retries |-> retries]
Dropped(reason) == [what |-> "Dropped", reason |-> reason, retries |-> 0]

Finalize(dsp, ids, d) ==
    [x \in DOMAIN dsp |-> IF x \in ids THEN Append(dsp[x], d) ELSE dsp[x]]

\* The part of a batch whose documents are in ids, in batch order.
Only(docs, ids) == SelectSeq(docs, LAMBDA d : d.id \in ids)

\* What the collector does with a request-level response: the requests in
\* flight and the dispositions after it.
OnResponse_ack_each_attempt(reqs, dsp, r, o) ==
    LET ids == Ids(r.docs)
        decision == RetryDecision(o, r.attempts)
    IN  CASE decision = "Success" ->
               [requests |-> reqs \ {r},
                disp |-> Finalize(Finalize(dsp, ids, Delivered(r.attempts)),
                                  IF r.attempts > 0 THEN ids ELSE {},
                                  Delivered(r.attempts))]
          [] decision = "Retryable" ->
               [requests |-> (reqs \ {r}) \cup {Retried(r, r.docs)}, disp |-> dsp]
          [] decision = "Exhausted" ->
               [requests |-> reqs \ {r},
                disp |-> Finalize(dsp, ids, Dropped("retries-exhausted"))]
          [] OTHER ->
               [requests |-> reqs \ {r},
                disp |-> Finalize(dsp, ids, Dropped("non-retryable"))]

OnResponse(reqs, dsp, r, o) ==
    LET ids == Ids(r.docs)
        decision == RetryDecision(o, r.attempts)
    IN  CASE decision = "Success" ->
               [requests |-> reqs \ {r}, disp |-> Finalize(dsp, ids, Delivered(r.attempts))]
          [] decision = "Retryable" ->
               [requests |-> (reqs \ {r}) \cup {Retried(r, r.docs)}, disp |-> dsp]
          [] decision = "Exhausted" ->
               [requests |-> reqs \ {r},
                disp |-> Finalize(dsp, ids, Dropped("retries-exhausted"))]
          [] OTHER ->
               [requests |-> reqs \ {r},
                disp |-> Finalize(dsp, ids, Dropped("non-retryable"))]

\* What the collector does with a 200 whose items in `failed` failed.
OnPartial_resend_all(reqs, dsp, flag, r, failed) ==
    LET ok == Ids(r.docs) \ failed
    IN  IF flag /\ r.attempts < retry_ceiling
        THEN [requests |-> (reqs \ {r}) \cup {Retried(r, r.docs)},
              disp |-> Finalize(dsp, ok, Delivered(r.attempts))]
        ELSE [requests |-> reqs \ {r},
              disp |-> Finalize(Finalize(dsp, ok, Delivered(r.attempts)), failed,
                                Dropped("partial-failure"))]

OnPartial(reqs, dsp, flag, r, failed) ==
    LET ok == Ids(r.docs) \ failed
    IN  IF flag /\ r.attempts < retry_ceiling
        THEN [requests |-> (reqs \ {r}) \cup {Retried(r, Only(r.docs, failed))},
              disp |-> Finalize(dsp, ok, Delivered(r.attempts))]
        ELSE [requests |-> reqs \ {r},
              disp |-> Finalize(Finalize(dsp, ok, Delivered(r.attempts)), failed,
                                Dropped("partial-failure"))]

\* Batcher::flush_all: every open batch becomes a request.
flush_all(reqs, batches) ==
    reqs \cup {NewRequest(batches[k]) : k \in {x \in DOMAIN batches : batches[x] # <<>>}}

\* Past the shutdown timeout the requests in flight are reported dropped.
on_shutdown_timeout_silent(dsp, ids) == dsp

on_shutdown_timeout(dsp, ids) == Finalize(dsp, ids, Dropped("shutdown-timeout"))

InFlightIds == UNION {Ids(r.docs) : r \in requests}

NoDrain == [open |-> 0, inflight |-> 0, units |-> {}]

PipeIdle ==
    /\ phase = "idle"
    /\ retry_partial = request_retry_partial_default
    /\ pushed = 0
    /\ open = [k \in PipeKeys |-> <<>>]
    /\ requests = {}
    /\ disp = [d \in DocIds |-> <<>>]
    /\ drained = NoDrain

SinkIdle ==
    /\ pc = "start"
    /\ pulled = <<>>
    /\ store = <<>>
    /\ stepResult = Unit
    /\ errorLog = 0
    /\ runResult = "none"
    /\ streamEnded = FALSE
    /\ metric = NoMetric
    /\ ingest_metric = NoIngest

PipeInit ==
    /\ SinkIdle
    /\ phase = "running"
    /\ retry_partial \in BOOLEAN
    /\ pushed = 0
    /\ open = [k \in PipeKeys |-> <<>>]
    /\ requests = {}
    /\ disp = [d \in DocIds |-> <<>>]
    /\ drained = NoDrain

BatchInit ==
    /\ SinkIdle
    /\ phase = "running"
    /\ retry_partial = request_retry_partial_default
    /\ pushed = 0
    /\ open = [k \in PipeKeys |-> <<>>]
    /\ requests = {}
    /\ disp = [d \in DocIds |-> <<>>]
    /\ drained = NoDrain

\* The dispatch service alone: one batch of up to batch_max_events documents
\* is in flight, and possibly a second request of another key beside it.
BatchOf(k, from, n) == [i \in 1..n |-> [id |-> from + i - 1, key |-> k, size |-> 1]]

DispatchInit ==
    /\ SinkIdle
    /\ phase = "running"
    /\ retry_partial \in BOOLEAN
    /\ open = [k \in PipeKeys |-> <<>>]
    /\ disp = [d \in DocIds |-> <<>>]
    /\ drained = NoDrain
    /\ \E n \in 1..batch_max_events, m \in 0..1 :
          /\ pushed = n + m
          /\ requests =
                Dispatch({NewRequest(BatchOf(PartitionKey("logs", "Index"), 1, n))},
                         BatchOf(PartitionKey("default", "Index"), n + 1, m))

PushOf(sizes, limit) ==
    /\ phase = "running"
    /\ pushed < limit
    /\ \E k \in PipeKeys, size \in sizes :
          LET doc == [id |-> pushed + 1, key |-> k, size |-> size]
              res == push(open[k], doc)
          IN  /\ pushed' = pushed + 1
              /\ open' = [open EXCEPT ![k] = res.open]
              /\ requests' = Dispatch(requests, res.flushed)
    /\ UNCHANGED <<phase, retry_partial, disp, drained>>
    /\ UNCHANGED <<sinkVars, convVars>>

\* Batcher::push of a document of any size.
Push == PushOf(DocSizes, MaxPushes)

\* Batcher::push in the dispatch pipeline, whose documents are all one byte.
PushUnit == PushOf(UnitSize, MaxDocs)

\* Batcher::tick: the linger time of the batch of one key has passed.
Tick ==
    /\ phase = "running"
    /\ \E k \in PipeKeys :
          /\ open[k] # <<>>
          /\ open' = [open EXCEPT ![k] = <<>>]
          /\ requests' = Dispatch(requests, open[k])
    /\ UNCHANGED <<phase, retry_partial, pushed, disp, drained>>
    /\ UNCHANGED <<sinkVars, convVars>>

Respond ==
    /\ phase \in {"running", "draining"}
    /\ \E r \in requests, o \in Outcomes :
          LET res == OnResponse(requests, disp, r, o)
          IN  /\ requests' = res.requests
              /\ disp' = res.disp
    /\ UNCHANGED <<phase, retry_partial, pushed, open, drained>>
    /\ UNCHANGED <<sinkVars, convVars>>

RespondPartial ==
    /\ phase \in {"running", "draining"}
    /\ \E r \in requests :
          \E failed \in (SUBSET Ids(r.docs)) \ {{}, Ids(r.docs)} :
              LET res == OnPartial(requests, disp, retry_partial, r, failed)
              IN  /\ requests' = res.requests
                  /\ disp' = res.disp
    /\ UNCHANGED <<phase, retry_partial, pushed, open, drained>>
    /\ UNCHANGED <<sinkVars, convVars>>

\* The host triggers drain: no more events are pulled, flush_all.
Drain ==
    /\ phase = "running"
    /\ phase' = "draining"
    /\ requests' = flush_all(requests, open)
    /\ open' = [k \in PipeKeys |-> <<>>]
    /\ drained' = [open |-> Cardinality({k \in PipeKeys : open[k] # <<>>}),
                   inflight |-> Cardinality(requests),
                   units |-> {Ids(open[k]) : k \in {x \in PipeKeys : open[x] # <<>>}}
                             \cup {Ids(r.docs) : r \in requests}]
    /\ UNCHANGED <<retry_partial, pushed, disp>>
    /\ UNCHANGED <<sinkVars, convVars>>

\* The shutdown timeout passes with requests still in flight.
ShutdownTimeout ==
    /\ phase = "draining"
    /\ requests # {}
    /\ phase' = "done"
    /\ disp' = on_shutdown_timeout(disp, InFlightIds)
    /\ requests' = {}
    /\ UNCHANGED <<retry_partial, pushed, open, drained>>
    /\ UNCHANGED <<sinkVars, convVars>>

Drained ==
    /\ phase = "draining"
    /\ requests = {}
    /\ phase' = "done"
    /\ UNCHANGED <<retry_partial, pushed, open, requests, disp, drained>>
    /\ UNCHANGED <<sinkVars, convVars>>

PipeNext ==
    PushUnit \/ Tick \/ Respond \/ RespondPartial \/ Drain \/ ShutdownTimeout \/ Drained

BatchNext == Push \/ Tick \/ Drain

DispatchNext == Respond \/ RespondPartial

Init ==
    /\ SinkIdle
    /\ PipeIdle

\* StreamSink::run hands the stream to run_inner.
run ==
    /\ pc = "start"
    /\ pc' = "running"
    /\ UNCHANGED <<pulled, store, stepResult, errorLog, runResult, streamEnded>>
    /\ UNCHANGED convVars
    /\ UNCHANGED pipeVars

MetricEntry(id, m) ==
    [id |-> id, key |-> PartitionKey("default", "none"),
     doc |-> convert_metric_to_ingest_metric(m)]

LogEntry(id, log) ==
    LET ingest_log == convert_log_to_ingest_log(log)
    IN  [id |-> id, key |-> PartitionKey(ingest_log.index_name, ingest_log.operation),
         doc |-> ingest_log]

Step(event, result, newStore, ret, errors) ==
    /\ pulled' = Append(pulled, [event |-> event, result |-> result])
    /\ store' = newStore
    /\ stepResult' = ret
    /\ errorLog' = errorLog + errors
    /\ pc' = for_each(ret).pc
    /\ runResult' = for_each(ret).runResult
    /\ UNCHANGED streamEnded
    /\ UNCHANGED convVars
    /\ UNCHANGED pipeVars

EventMetric ==
    /\ pc = "running"
    /\ Len(pulled) < MaxEvents
    /\ \E m \in StreamMetrics, result \in CoreDBResults :
          LET entry == MetricEntry(Len(pulled) + 1, m)
              arm == MetricArm(result)
          IN  Step(m, result, coredb_append(store, result, entry), arm.ret, arm.errors)

EventLog ==
    /\ pc = "running"
    /\ Len(pulled) < MaxEvents
    /\ \E log \in LogEvents, result \in CoreDBResults :
          LET entry == LogEntry(Len(pulled) + 1, log)
              arm == LogArm(result)
          IN  Step(log, result, coredb_append(store, result, entry), arm.ret, arm.errors)

EventTrace ==
    /\ pc = "running"
    /\ Len(pulled) < MaxEvents
    /\ \E t \in TraceEvents :
          LET arm == TraceArm(store, Len(pulled) + 1)
          IN  Step(t, "Ok", arm.store, arm.ret, 0)

\* The input stream is exhausted: for_each completes and run_inner returns Ok(()).
EndOfStream ==
    /\ pc = "running"
    /\ pc' = "done"
    /\ streamEnded' = TRUE
    /\ runResult' = "Ok"
    /\ UNCHANGED <<pulled, store, stepResult, errorLog>>
    /\ UNCHANGED convVars
    /\ UNCHANGED pipeVars

\* --------------------------------------- convert_metric_to_ingest_metric alone
ConvertInit ==
    /\ pc = "start"
    /\ pulled = <<>>
    /\ store = <<>>
    /\ stepResult = Unit
    /\ errorLog = 0
    /\ runResult = "none"
    /\ streamEnded = FALSE
    /\ metric \in Metrics
    /\ ingest_metric = NoIngest
    /\ PipeIdle

Convert ==
    /\ ingest_metric = NoIngest
    /\ ingest_metric' = convert_metric_to_ingest_metric(metric)
    /\ UNCHANGED metric
    /\ UNCHANGED sinkVars
    /\ UNCHANGED pipeVars

NextMetric ==
    /\ ingest_metric # NoIngest
    /\ metric' \in Metrics
    /\ ingest_metric' = NoIngest
    /\ UNCHANGED sinkVars
    /\ UNCHANGED pipeVars

ConvertNext == Convert \/ NextMetric

Next == run \/ EventMetric \/ EventLog \/ EventTrace \/ EndOfStream

vars == <<sinkVars, convVars, pipeVars>>

Spec == Init /\ [][Next]_vars

ConvertSpec == ConvertInit /\ [][ConvertNext]_vars

PipeSpec == PipeInit /\ [][PipeNext]_vars

BatchSpec == BatchInit /\ [][BatchNext]_vars

DispatchSpec == DispatchInit /\ [][DispatchNext]_vars

\* ------------------------------------------------------------------ claims
\* C1: documents that share one PartitionKey reach the destination in the
\* order in which their events arrived: within a key the arrival numbers of
\* the stored documents strictly increase, and every event whose append was
\* accepted is stored exactly once.
C1_OrderWithinKey ==
    /\ \A i, j \in 1..Len(store) :
          (i < j /\ store[i].key = store[j].key) => store[i].id < store[j].id
    /\ \A n \in 1..Len(pulled) :
          (pulled[n].event.type # "Trace" /\ pulled[n].result = "Ok")
             => Cardinality({i \in 1..Len(store) : store[i].id = n}) = 1

C1_Witness ==
    /\ Len(store) = 3
    /\ store[1].key = store[3].key
    /\ store[2].key # store[1].key

\* C2: a failing event never ends the run: run_inner never returns an error,
\* and it returns (Ok) only when the input stream itself has ended, so after
\* a failed event the stream is still being pulled.
C2_ErrorsNeverTerminate ==
    /\ runResult \in {"none", "Ok"}
    /\ pc = "done" => (streamEnded /\ runResult = "Ok")
    /\ (~streamEnded /\ pulled # <<>>) => pc = "running"

C2_Witness ==
    /\ pc = "done"
    /\ \E i, j \in 1..Len(pulled) :
          /\ i < j
          /\ pulled[i].event.type = "Metric"
          /\ pulled[i].result = "TooManyAppendsError"
          /\ pulled[j].result = "Ok"
          /\ \E k \in 1..Len(store) : store[k].id = j

InFlight(d, reqs) == {q \in reqs : d \in Ids(q.docs)}

BatchWithinMaxima(batch) ==
    Len(batch) <= batch_max_events /\ Bytes(batch) <= batch_max_bytes

C4_PushStep ==
    pushed' = pushed + 1 =>
        \E k \in PipeKeys :
            LET batch == open'[k]
                doc == batch[Len(batch)]
                exceeds == \/ Len(open[k]) + 1 > batch_max_events
                           \/ Bytes(open[k]) + doc.size > batch_max_bytes
            IN  /\ batch # <<>>
                /\ doc.id = pushed'
                /\ \A x \in PipeKeys \ {k} : open'[x] = open[x]
                /\ exceeds =>
                      /\ batch = <<doc>>
                      /\ requests' = requests \cup {[docs |-> open[k], attempts |-> 0]}
                /\ ~exceeds =>
                      /\ batch = Append(open[k], doc)
                      /\ requests' = requests

Terminal(u) == \A d \in u : Len(disp[d]) = 1

RemoveTraces(h) == SelectSeq(h, LAMBDA p : p.event.type # "Trace")

RECURSIVE Replay(_, _)
Replay(h, st) ==
    IF h = <<>> THEN st
    ELSE LET p == Head(h)
             entry == IF p.event.type = "Metric" THEN MetricEntry(0, p.event)
                      ELSE LogEntry(0, p.event)
         IN  Replay(Tail(h), coredb_append(st, p.result, entry))

Docs(st) == [i \in 1..Len(st) |-> [key |-> st[i].key, doc |-> st[i].doc]]

\* C5: a Trace event yields no document and no write, and the store holds
\* exactly the documents, in the order, that the same run over the input
\* with its Trace events removed produces.
C5_TracesFilteredOut ==
    /\ \A i \in 1..Len(store) : pulled[store[i].id].event.type # "Trace"
    /\ (pulled # <<>> /\ pulled[Len(pulled)].event.type = "Trace") => stepResult = None
    /\ Docs(store) = Docs(Replay(RemoveTraces(pulled), <<>>))

C5_Witness ==
    /\ Len(pulled) = 3
    /\ pulled[2].event.type = "Trace"
    /\ Len(store) = 2
    /\ store[1].id = 1
    /\ store[2].id = 3

RECURSIVE TotalOf(_, _)
TotalOf(s, n) == IF n = 0 THEN 0 ELSE s[n] + TotalOf(s, n - 1)

\* C9: converting a Metric gives one point whose value is the raw value for
\* Counter and Gauge, the sum of the samples for Histogram and Distribution,
\* and the number of distinct values for Set.
C9_MetricReduction ==
    ingest_metric # NoIngest =>
        /\ DOMAIN ingest_metric.metric_point = {"time", "value"}
        /\ metric.kind \in {"Counter", "Gauge"} =>
              ingest_metric.metric_point.value = metric.value
        /\ metric.kind \in {"Histogram", "Distribution"} =>
              ingest_metric.metric_point.value = TotalOf(metric.samples, Len(metric.samples))
        /\ metric.kind = "Set" =>
              ingest_metric.metric_point.value = Cardinality(metric.values)

C9_Witness ==
    /\ metric \in Metrics
    /\ metric.kind = "Histogram"
    /\ metric.samples = <<20, 22>>
    /\ ingest_metric.metric_point.value = 42

UnexpectedMetricErrors ==
    Cardinality({n \in 1..Len(pulled) :
                    pulled[n].event.type = "Metric" /\ pulled[n].result = "IOError"})

\* C10: for a Log event the outcome of the append is discarded (the step
\* yields no error and emits no diagnostic, whatever the store answered, and
\* the run goes on), whereas a Metric event whose append fails with
\* TooManyAppendsError, UnsupportedIngest or IndexNotFound makes the step
\* return an error status (429, 400, 400).
C10_LogOutcomeDiscarded ==
    /\ errorLog = UnexpectedMetricErrors
    /\ pulled # <<>> =>
          LET lastPulled == pulled[Len(pulled)]
          IN  /\ lastPulled.event.type = "Log" =>
                    (stepResult = Unit /\ runResult # "Err" /\ (pc = "running" \/ streamEnded))
              /\ (lastPulled.event.type = "Metric" /\ lastPulled.result = "TooManyAppendsError") =>
                    stepResult = Err(429)
              /\ (lastPulled.event.type = "Metric"
                        /\ lastPulled.result \in {"UnsupportedIngest", "IndexNotFound"}) =>
                    stepResult = Err(400)

C10_Witness ==
    /\ Len(pulled) = 3
    /\ pulled[1].event.type = "Log"
    /\ pulled[1].result = "TooManyAppendsError"
    /\ pulled[2].event.type = "Log"
    /\ pulled[2].result = "Ok"
    /\ pulled[3].event.type = "Metric"
    /\ pulled[3].result = "TooManyAppendsError"
    /\ stepResult = Err(429)
    /\ errorLog = 0
    /\ Len(store) = 1

====
